---- MODULE Spec2Model ----
(***************************************************************************)
(* Conway's Game of Life on a toroidal grid: the Universe of src/lib.rs.   *)
(*                                                                         *)
(* The Universe is width, height and a FixedBitSet `cells`.  A FixedBitSet *)
(* is modelled as a record [length, data]: its capacity in bits and the    *)
(* set of the indices of its enabled bits.  Reading a bit outside the      *)
(* capacity yields false; writing one panics (the crate's assertion).      *)
(***************************************************************************)
EXTENDS Integers, Sequences, FiniteSets, TLC

\* Bounds of the full-interface specification Spec.
MaxWidth == 2
MaxHeight == 2
MaxList == 1

\* Bound of the tick-only specification SpecTick: the cells of a grid.
TickMaxCells == 9

\* Bound of the stepwise specification SpecOrder: the cells of a grid.
OrdMaxCells == 6

\* Bounds of the list specification SpecList: the cells of a grid and the
\* entries of a coordinate list.
ListMaxCells == 4
ListMaxLen == 2

\* Bound of the construction specification SpecNew: the cells allocated.
NewMaxCells == 6

\* Bounds of the pattern specifications SpecBlock and SpecBlinker.
PatMaxWidth == 6
PatMaxHeight == 6
MaxTicks == 3

VARIABLES
    width,      \* Universe.width
    height,     \* Universe.height
    cells,      \* Universe.cells
    op,         \* the last operation called on the universe
    outcome,    \* "ok" when it returned, "panic" when it panicked
    ret,        \* the value it returned (<<>> for the unit type)
    pc,         \* "idle" between calls, "tick" while a tick is running
    next,       \* tick's local `next`
    done,       \* the (row, col) pairs tick's loop body has run for
    start,      \* scenario bookkeeping: the seeded pattern
    ticks       \* scenario bookkeeping: tick() calls since the seeding

vars == <<width, height, cells, op, outcome, ret, pc, next, done, start, ticks>>

universe == <<width, height, cells>>
scenario == <<start, ticks>>
locals == <<pc, next, done>>

(***************************************************************************)
(* FixedBitSet                                                             *)
(***************************************************************************)

\* FixedBitSet::with_capacity(bits): all bits disabled.
WithCapacity(bits) == [length |-> bits, data |-> {}]

\* self.cells[bit]: bits outside the capacity read as false.
Contains(bs, bit) == bit \in bs.data

\* FixedBitSet::set asserts bit < length before writing.
SetPanics(bs, bit) == bit >= bs.length

\* FixedBitSet::set(bit, enabled), for bit < length.
Put(bs, bit, enabled) ==
    [bs EXCEPT !.data = IF enabled THEN @ \cup {bit} ELSE @ \ {bit}]

\* `x as u8` of a bool.
AsU8(b) == IF b THEN 1 ELSE 0

(***************************************************************************)
(* Indexing and neighbour counting                                         *)
(***************************************************************************)

\* The dimensions, coordinates and indices are u32 values.  A u32 product is
\* computed on 16-bit halves, so that a product of 2^32 or more is seen and
\* wrapped as the machine does it.  Coordinates and indices stay far under
\* 2^31 in every specification below, where row * width + col is exact; a
\* subtraction from 0 is reported by TickCellFault before it is evaluated.

\* 2^16: a u32 is two halves below it.
Half == 65536

\* The product of two halves as [hi, lo], hi * 2^16 + lo.
Mul16(a, b) ==
    LET p1 == a * (b \div 256)
        p0 == a * (b % 256)
        t  == (p1 % 256) * 256 + p0
    IN  [hi |-> (t \div Half) + (p1 \div 256), lo |-> t % Half]

\* The full product of two u32 values as four halves, lowest first.
WideMul(a, b) ==
    LET ll == Mul16(a % Half, b % Half)
        lh == Mul16(a % Half, b \div Half)
        hl == Mul16(a \div Half, b % Half)
        hh == Mul16(a \div Half, b \div Half)
        s1 == ll.hi + lh.lo + hl.lo
        s2 == lh.hi + hl.hi + hh.lo + (s1 \div Half)
    IN  <<ll.lo, s1 % Half, s2 % Half, hh.hi + (s2 \div Half)>>

\* `width * height` does not fit in a u32.
MulOverflows(w, h) == WideMul(w, h)[3] # 0 \/ WideMul(w, h)[4] # 0

\* (width * height) as usize with the product wrapped to 32 bits, as a build
\* without overflow checks computes it (a build with them panics instead,
\* see NewCall).  Two factors below 2^15 have a product below 2^30, which is
\* its own low 32 bits.
Size(w, h) ==
    IF w < Half \div 2 /\ h < Half \div 2
    THEN w * h
    ELSE WideMul(w, h)[2] * Half + WideMul(w, h)[1]

\* get_index: (row * self.width + col) as usize
GetIndex(w, row, col) == row * w + col

\* live_neighbor_count without the wrap of the east column.
LiveNeighborCount_NoEastWrap(cs, w, h, row, col) ==
    LET north == IF row = 0 THEN h - 1 ELSE row - 1
        south == IF row = h - 1 THEN 0 ELSE row + 1
        west == IF col = 0 THEN w - 1 ELSE col - 1
        east == col + 1
    IN  AsU8(Contains(cs, GetIndex(w, north, west)))
        + AsU8(Contains(cs, GetIndex(w, north, col)))
        + AsU8(Contains(cs, GetIndex(w, north, east)))
        + AsU8(Contains(cs, GetIndex(w, row, west)))
        + AsU8(Contains(cs, GetIndex(w, row, east)))
        + AsU8(Contains(cs, GetIndex(w, south, west)))
        + AsU8(Contains(cs, GetIndex(w, south, col)))
        + AsU8(Contains(cs, GetIndex(w, south, east)))

\* live_neighbor_count(row, col) on the grid cs of width w and height h.
LiveNeighborCount(cs, w, h, row, col) ==
    LET north == IF row = 0 THEN h - 1 ELSE row - 1
        south == IF row = h - 1 THEN 0 ELSE row + 1
        west == IF col = 0 THEN w - 1 ELSE col - 1
        east == IF col = w - 1 THEN 0 ELSE col + 1
    IN  AsU8(Contains(cs, GetIndex(w, north, west)))
        + AsU8(Contains(cs, GetIndex(w, north, col)))
        + AsU8(Contains(cs, GetIndex(w, north, east)))
        + AsU8(Contains(cs, GetIndex(w, row, west)))
        + AsU8(Contains(cs, GetIndex(w, row, east)))
        + AsU8(Contains(cs, GetIndex(w, south, west)))
        + AsU8(Contains(cs, GetIndex(w, south, col)))
        + AsU8(Contains(cs, GetIndex(w, south, east)))

(***************************************************************************)
(* The transition                                                          *)
(***************************************************************************)

\* The match of tick with a dead cell born on two neighbours as well.
NextCell_BirthOnTwo(cell, live_neighbors) ==
    CASE cell /\ live_neighbors < 2 -> FALSE
      [] cell /\ live_neighbors \in {2, 3} -> TRUE
      [] cell /\ live_neighbors > 3 -> FALSE
      [] ~cell /\ live_neighbors \in {2, 3} -> TRUE
      [] OTHER -> cell

\* The match of tick with rule 2 keeping a live cell on three neighbours only.
NextCell_SurviveOnThree(cell, live_neighbors) ==
    CASE cell /\ live_neighbors < 3 -> FALSE
      [] cell /\ live_neighbors = 3 -> TRUE
      [] cell /\ live_neighbors > 3 -> FALSE
      [] ~cell /\ live_neighbors = 3 -> TRUE
      [] OTHER -> cell

\* The match of tick without the overpopulation arm: a live cell with more
\* than three neighbours falls through to the last arm and stays alive.
NextCell_NoOverpopulation(cell, live_neighbors) ==
    CASE cell /\ live_neighbors < 2 -> FALSE
      [] cell /\ live_neighbors \in {2, 3} -> TRUE
      [] ~cell /\ live_neighbors = 3 -> TRUE
      [] OTHER -> cell

\* The match of tick with the last arm negating the cell it keeps.
NextCell_OtherwiseFlips(cell, live_neighbors) ==
    CASE cell /\ live_neighbors < 2 -> FALSE
      [] cell /\ live_neighbors \in {2, 3} -> TRUE
      [] cell /\ live_neighbors > 3 -> FALSE
      [] ~cell /\ live_neighbors = 3 -> TRUE
      [] OTHER -> ~cell

\* The match of tick: the arms in the order of the source.
NextCell(cell, live_neighbors) ==
    CASE cell /\ live_neighbors < 2 -> FALSE
      [] cell /\ live_neighbors \in {2, 3} -> TRUE
      [] cell /\ live_neighbors > 3 -> FALSE
      [] ~cell /\ live_neighbors = 3 -> TRUE
      [] OTHER -> cell

\* The loop body reading the cell and its neighbours from `next`.
TickCell_ReadsNext(cs, nx, w, h, row, col) ==
    LET idx == GetIndex(w, row, col)
    IN  Put(nx, idx, NextCell(Contains(nx, idx), LiveNeighborCount(nx, w, h, row, col)))

\* The body of tick's loop for (row, col): reads self.cells (cs), writes next (nx).
TickCell(cs, nx, w, h, row, col) ==
    LET idx == GetIndex(w, row, col)
    IN  Put(nx, idx, NextCell(Contains(cs, idx), LiveNeighborCount(cs, w, h, row, col)))

\* Why the loop body cannot complete for (row, col), or "ok": next.set panics
\* on an index outside next, and height - 1 or width - 1 underflows on 0.
TickCellFault(nx, w, h, row, col) ==
    IF w = 0 \/ h = 0 THEN "underflow"
    ELSE IF SetPanics(nx, GetIndex(w, row, col)) THEN "out_of_bounds"
    ELSE "ok"

RECURSIVE TickFrom_Inclusive(_, _, _, _, _, _)
\* The loops of tick with the row range 0..=height.
TickFrom_Inclusive(cs, nx, w, h, row, col) ==
    IF row > h THEN [fault |-> "ok", next |-> nx]
    ELSE IF col >= w THEN TickFrom_Inclusive(cs, nx, w, h, row + 1, 0)
    ELSE IF TickCellFault(nx, w, h, row, col) # "ok"
         THEN [fault |-> TickCellFault(nx, w, h, row, col), next |-> nx]
    ELSE TickFrom_Inclusive(cs, TickCell(cs, nx, w, h, row, col), w, h, row, col + 1)

RECURSIVE TickFrom(_, _, _, _, _, _)
\* The loops of tick from (row, col) on, row-major: for row in 0..height,
\* for col in 0..width.  The result is `next` and whether a step faulted.
TickFrom(cs, nx, w, h, row, col) ==
    IF row >= h THEN [fault |-> "ok", next |-> nx]
    ELSE IF col >= w THEN TickFrom(cs, nx, w, h, row + 1, 0)
    ELSE IF TickCellFault(nx, w, h, row, col) # "ok"
         THEN [fault |-> TickCellFault(nx, w, h, row, col), next |-> nx]
    ELSE TickFrom(cs, TickCell(cs, nx, w, h, row, col), w, h, row, col + 1)

\* tick's loops with `next` a fresh bit set of width * width bits in place of
\* the clone.
TickLoop_SquareAlloc(cs, w, h) == TickFrom(cs, WithCapacity(Size(w, w)), w, h, 0, 0)

\* tick's loops as a whole: next = self.cells.clone(), then every (row, col).
TickLoop(cs, w, h) == TickFrom(cs, cs, w, h, 0, 0)

(***************************************************************************)
(* Rendering                                                               *)
(***************************************************************************)

\* The glyph written for a cell (both literals are '?' in the source).
Symbol(alive) == IF alive THEN "?" ELSE "?"

RECURSIVE FmtRow(_, _, _, _, _)
\* The inner loop of fmt: for col in 0..self.height, from col on.
FmtRow(cs, w, h, row, col) ==
    IF col >= h THEN <<"\n">>
    ELSE <<Symbol(Contains(cs, GetIndex(w, row, col)))>> \o FmtRow(cs, w, h, row, col + 1)

RECURSIVE FmtFrom(_, _, _, _)
\* The outer loop of fmt: for row in 0..self.width, from row on.
FmtFrom(cs, w, h, row) ==
    IF row >= w THEN <<>>
    ELSE FmtRow(cs, w, h, row, 0) \o FmtFrom(cs, w, h, row + 1)

\* Display::fmt: the characters written, in order.
Fmt(cs, w, h) == FmtFrom(cs, w, h, 0)

(***************************************************************************)
(* Construction                                                            *)
(***************************************************************************)

\* The bit sets new(w, h) can build: `size` bits, each drawn at random.
NewCells(w, h) ==
    {[length |-> Size(w, h), data |-> d] : d \in SUBSET (0 .. Size(w, h) - 1)}

\* Universe::new(w, h): every bit of a width * height bit set drawn at random.
New(w, h) ==
    /\ width = w
    /\ height = h
    /\ cells \in NewCells(w, h)
    /\ op = "new"
    /\ outcome = "ok"
    /\ ret = <<>>

\* No tick is running and no scenario is tracked.
Idle ==
    /\ pc = "idle"
    /\ next = WithCapacity(0)
    /\ done = {}
    /\ start = <<>>
    /\ ticks = 0

Init ==
    /\ \E w \in 0 .. MaxWidth, h \in 0 .. MaxHeight : New(w, h)
    /\ Idle

(***************************************************************************)
(* Operations                                                              *)
(***************************************************************************)

\* What a call leaves in op, outcome and ret.
Returns(name, result, value) ==
    /\ op' = name
    /\ outcome' = result
    /\ ret' = value

\* set_cells_all keeping the bits of the old array that fit the new one.
SetCellsAllOf_KeepsOld(w, h, state) ==
    [length |-> Size(w, h), data |-> cells.data \cap (0 .. Size(w, h) - 1)]

\* set_cells_all allocating the new array and leaving out the loop over it.
SetCellsAllOf_NoFill(w, h, state) ==
    [length |-> Size(w, h), data |-> {}]

\* The bit set set_cells_all(state) builds for dimensions w and h.
SetCellsAllOf(w, h, state) ==
    [length |-> Size(w, h), data |-> IF state THEN 0 .. Size(w, h) - 1 ELSE {}]

\* set_cells_all(state)
SetCellsAll(state) ==
    /\ cells' = SetCellsAllOf(width, height, state)
    /\ UNCHANGED <<width, height>>
    /\ Returns("set_cells_all", "ok", <<>>)
    /\ UNCHANGED <<locals, scenario>>

\* set_cells_alive_all()
SetCellsAliveAll == SetCellsAll(TRUE)

\* set_cells_dead_all()
SetCellsDeadAll == SetCellsAll(FALSE)

\* set_width that stores the width and keeps the old bit array.
SetWidth_NoReset(w) ==
    /\ width' = w
    /\ UNCHANGED <<height, cells>>
    /\ Returns("set_width", "ok", <<>>)
    /\ UNCHANGED <<locals, scenario>>

\* set_width(w): store the width, then set_cells_dead_all().
SetWidth(w) ==
    /\ width' = w
    /\ height' = height
    /\ cells' = SetCellsAllOf(w, height, FALSE)
    /\ Returns("set_width", "ok", <<>>)
    /\ UNCHANGED <<locals, scenario>>

\* set_height(h): store the height, then set_cells_dead_all().
SetHeight(h) ==
    /\ height' = h
    /\ width' = width
    /\ cells' = SetCellsAllOf(width, h, FALSE)
    /\ Returns("set_height", "ok", <<>>)
    /\ UNCHANGED <<locals, scenario>>

\* width()
Width ==
    /\ Returns("width", "ok", width)
    /\ UNCHANGED <<universe, locals, scenario>>

\* height()
Height ==
    /\ Returns("height", "ok", height)
    /\ UNCHANGED <<universe, locals, scenario>>

\* get_cells()
GetCells ==
    /\ Returns("get_cells", "ok", cells)
    /\ UNCHANGED <<universe, locals, scenario>>

\* render(): self.to_string()
Render ==
    /\ Returns("render", "ok", Fmt(cells, width, height))
    /\ UNCHANGED <<universe, locals, scenario>>

\* set_cell(row, col, state)
SetCell(row, col, state) ==
    LET idx == GetIndex(width, row, col)
    IN  /\ IF SetPanics(cells, idx)
           THEN cells' = cells /\ Returns("set_cell", "panic", <<>>)
           ELSE cells' = Put(cells, idx, state) /\ Returns("set_cell", "ok", <<>>)
        /\ UNCHANGED <<width, height, locals, scenario>>

\* set_cell_alive(row, col)
SetCellAlive(row, col) == SetCell(row, col, TRUE)

\* set_cell_dead(row, col)
SetCellDead(row, col) == SetCell(row, col, FALSE)

\* toggle_cell writing true whatever the cell holds.
Toggled_SetsAlive(bs, w, row, col) ==
    Put(bs, GetIndex(w, row, col), TRUE)

\* The bit set after toggle_cell's write: self.cells.set(idx, !self.cells[idx]).
Toggled(bs, w, row, col) ==
    Put(bs, GetIndex(w, row, col), ~Contains(bs, GetIndex(w, row, col)))

\* toggle_cell(row, col)
ToggleCell(row, col) ==
    LET idx == GetIndex(width, row, col)
    IN  /\ IF SetPanics(cells, idx)
           THEN cells' = cells /\ Returns("toggle_cell", "panic", <<>>)
           ELSE cells' = Toggled(cells, width, row, col)
                /\ Returns("toggle_cell", "ok", <<>>)
        /\ UNCHANGED <<width, height, locals, scenario>>

RECURSIVE SetCellsFrom_SkipsLast(_, _, _, _, _)
\* The loop of set_cells ending one entry early.
SetCellsFrom_SkipsLast(bs, w, list, state, i) ==
    IF i >= Len(list) THEN [panic |-> FALSE, cells |-> bs]
    ELSE LET idx == GetIndex(w, list[i][1], list[i][2])
         IN  IF SetPanics(bs, idx) THEN [panic |-> TRUE, cells |-> bs]
             ELSE SetCellsFrom_SkipsLast(Put(bs, idx, state), w, list, state, i + 1)

RECURSIVE SetCellsFrom(_, _, _, _, _)
\* The loop of set_cells from entry i of the list on: the bit set when the
\* loop ends, and whether it ended on a panic of FixedBitSet::set.
SetCellsFrom(bs, w, list, state, i) ==
    IF i > Len(list) THEN [panic |-> FALSE, cells |-> bs]
    ELSE LET idx == GetIndex(w, list[i][1], list[i][2])
         IN  IF SetPanics(bs, idx) THEN [panic |-> TRUE, cells |-> bs]
             ELSE SetCellsFrom(Put(bs, idx, state), w, list, state, i + 1)

\* The universe after set_cells(list, state): the writes made before a panic
\* stay in self.cells.
SetCellsUniverse(list, state) ==
    LET r == SetCellsFrom(cells, width, list, state, 1)
    IN  /\ cells' = r.cells
        /\ Returns("set_cells", IF r.panic THEN "panic" ELSE "ok", <<>>)
        /\ UNCHANGED <<width, height>>

\* set_cells(list, state)
SetCells(list, state) ==
    /\ SetCellsUniverse(list, state)
    /\ UNCHANGED <<locals, scenario>>

\* set_cells_alive(list)
SetCellsAlive(list) == SetCells(list, TRUE)

\* set_cells_dead(list)
SetCellsDead(list) == SetCells(list, FALSE)

\* The universe after tick(): self.cells = next unless the loops panicked.
TickUniverse ==
    LET r == TickLoop(cells, width, height)
    IN  /\ cells' = IF r.fault = "ok" THEN r.next ELSE cells
        /\ UNCHANGED <<width, height>>
        /\ Returns("tick", IF r.fault = "ok" THEN "ok" ELSE r.fault, <<>>)

\* tick()
Tick ==
    /\ TickUniverse
    /\ UNCHANGED <<locals, scenario>>

\* The coordinates and lists the host passes: one past the largest grid too.
Rows == 0 .. MaxHeight
Cols == 0 .. MaxWidth
CoordLists == UNION {[1 .. n -> Rows \X Cols] : n \in 0 .. MaxList}

\* Every public operation of the universe.  The one-line wrappers
\* set_cell_alive, set_cell_dead, set_cells_alive, set_cells_dead,
\* set_cells_alive_all and set_cells_dead_all are the steps of the operation
\* they call with state TRUE or FALSE.
Next ==
    \/ \E w \in 0 .. MaxWidth : SetWidth(w)
    \/ \E h \in 0 .. MaxHeight : SetHeight(h)
    \/ Width
    \/ Height
    \/ GetCells
    \/ Render
    \/ \E row \in Rows, col \in Cols, state \in BOOLEAN : SetCell(row, col, state)
    \/ \E row \in Rows, col \in Cols : ToggleCell(row, col)
    \/ \E list \in CoordLists, state \in BOOLEAN : SetCells(list, state)
    \/ \E state \in BOOLEAN : SetCellsAll(state)
    \/ Tick

Spec == Init /\ [][Next]_vars

(***************************************************************************)
(* SpecTick: any universe new() can build, then tick() after tick()        *)
(***************************************************************************)

\* The dimensions of the grids of at most n cells, a dimension of 0 included.
DimsUpTo(n) == {d \in (0 .. n) \X (0 .. n) : Size(d[1], d[2]) <= n}

InitTick ==
    /\ \E d \in DimsUpTo(TickMaxCells) : New(d[1], d[2])
    /\ Idle

NextTick == Tick

SpecTick == InitTick /\ [][NextTick]_vars

(***************************************************************************)
(* SpecList: one set_cells call on a fresh universe, the call's arguments  *)
(* and the grid it was called on kept in `start`.                          *)
(***************************************************************************)

\* The lists of at most n coordinates, each up to one past the w x h grid.
ListsUpTo(n, w, h) == UNION {[1 .. k -> (0 .. h) \X (0 .. w)] : k \in 0 .. n}

\* set_cells(list, state), recorded.
ListCall(list, state) ==
    /\ SetCellsUniverse(list, state)
    /\ start' = [cells |-> cells, list |-> list, state |-> state]
    /\ UNCHANGED <<locals, ticks>>

InitList ==
    /\ \E d \in DimsUpTo(ListMaxCells) : New(d[1], d[2])
    /\ Idle

\* The scenario is one call: no call is recorded yet.
NextList ==
    /\ start = <<>>
    /\ \E list \in ListsUpTo(ListMaxLen, width, height), state \in BOOLEAN :
           ListCall(list, state)

SpecList == InitList /\ [][NextList]_vars

(***************************************************************************)
(* SpecNew: new(width, height) called with the arguments kept in `start`,  *)
(* small dimensions and dimensions whose product passes 2^32.              *)
(***************************************************************************)

\* The dimensions passed: the small ones, 2^16, and the factors 641 and
\* 6700417 of 2^32 + 1.
NewDims == (0 .. NewMaxCells) \cup {641, Half, 6700417}

\* The argument pairs whose wrapped product is at most n.
NewArgs(n) ==
    {d \in NewDims \X NewDims :
        WideMul(d[1], d[2])[2] = 0 /\ WideMul(d[1], d[2])[1] <= n}

\* Universe::new(start.width, start.height).  On a product that does not fit
\* in a u32 the multiplication panics in a build with overflow checks and
\* wraps in a build without them.
NewCall ==
    /\ op = "none"
    /\ \/ /\ width' = start.width
          /\ height' = start.height
          /\ cells' \in NewCells(start.width, start.height)
          /\ Returns("new", "ok", <<>>)
       \/ /\ MulOverflows(start.width, start.height)
          /\ UNCHANGED universe
          /\ Returns("new", "panic", <<>>)
    /\ UNCHANGED <<locals, scenario>>

\* No universe is built yet: its fields hold nothing.
InitNew ==
    /\ \E d \in NewArgs(NewMaxCells) : start = [width |-> d[1], height |-> d[2]]
    /\ width = 0
    /\ height = 0
    /\ cells = WithCapacity(0)
    /\ op = "none"
    /\ outcome = "ok"
    /\ ret = <<>>
    /\ pc = "idle"
    /\ next = WithCapacity(0)
    /\ done = {}
    /\ ticks = 0

NextNew == NewCall

SpecNew == InitNew /\ [][NextNew]_vars

(***************************************************************************)
(* SpecOrder: tick() taken apart into its clone, one step per run of the   *)
(* loop body and the final assignment, the loop body run for the cells in  *)
(* any order (the row-major order of the source is one of them).           *)
(***************************************************************************)

\* The (row, col) pairs of the two loops of tick.
LoopCells(w, h) == (0 .. h - 1) \X (0 .. w - 1)

\* let mut next = self.cells.clone();
TickBegin ==
    /\ pc = "idle"
    /\ pc' = "tick"
    /\ next' = cells
    /\ done' = {}
    /\ UNCHANGED <<universe, op, outcome, ret, scenario>>

\* The loop body writing in place: `next` is self.cells itself, not a clone.
TickStep_InPlace(row, col) ==
    /\ pc = "tick"
    /\ <<row, col>> \in LoopCells(width, height) \ done
    /\ cells' = TickCell(cells, cells, width, height, row, col)
    /\ next' = cells'
    /\ done' = done \cup {<<row, col>>}
    /\ UNCHANGED <<width, height, pc, op, outcome, ret, scenario>>

\* One run of the loop body, for a (row, col) it has not run for yet.
TickStep(row, col) ==
    /\ pc = "tick"
    /\ <<row, col>> \in LoopCells(width, height) \ done
    /\ IF TickCellFault(next, width, height, row, col) = "ok"
       THEN /\ next' = TickCell(cells, next, width, height, row, col)
            /\ done' = done \cup {<<row, col>>}
            /\ UNCHANGED <<pc, op, outcome, ret>>
       ELSE /\ pc' = "idle"
            /\ next' = WithCapacity(0)
            /\ done' = {}
            /\ Returns("tick", TickCellFault(next, width, height, row, col), <<>>)
    /\ UNCHANGED <<universe, scenario>>

\* self.cells = next;
TickEnd ==
    /\ pc = "tick"
    /\ done = LoopCells(width, height)
    /\ cells' = next
    /\ pc' = "idle"
    /\ next' = WithCapacity(0)
    /\ done' = {}
    /\ Returns("tick", "ok", <<>>)
    /\ UNCHANGED <<width, height, scenario>>

InitOrder ==
    /\ \E d \in DimsUpTo(OrdMaxCells) : New(d[1], d[2])
    /\ Idle

NextOrder ==
    \/ TickBegin
    \/ \E row \in 0 .. OrdMaxCells, col \in 0 .. OrdMaxCells : TickStep(row, col)
    \/ TickEnd

SpecOrder == InitOrder /\ [][NextOrder]_vars

(***************************************************************************)
(* SpecBlock and SpecBlinker: a universe seeded with one pattern, then     *)
(* tick() up to MaxTicks times.                                            *)
(***************************************************************************)

\* The indices of the 2x2 block whose top-left cell is (row, col), wrapped.
BlockAt(w, h, row, col) ==
    { GetIndex(w, r, c) : r \in {row, (row + 1) % h}, c \in {col, (col + 1) % w} }

\* The indices of the three cells of row `row` around column col, wrapped.
RowBlinkerAt(w, h, row, col) ==
    { GetIndex(w, row, c) : c \in {(col - 1) % w, col, (col + 1) % w} }

\* The indices of the three cells of column col around row `row`, wrapped.
ColBlinkerAt(w, h, row, col) ==
    { GetIndex(w, r, col) : r \in {(row - 1) % h, row, (row + 1) % h} }

\* A w x h universe whose live cells are exactly `live`, as set_cells_dead_all
\* and set_cells_alive leave it; the pattern is anchored at (row, col).
Seeded(w, h, live, row, col) ==
    /\ width = w
    /\ height = h
    /\ cells = [length |-> Size(w, h), data |-> live]
    /\ op = "set_cells"
    /\ outcome = "ok"
    /\ ret = <<>>
    /\ pc = "idle"
    /\ next = WithCapacity(0)
    /\ done = {}
    /\ start = [cells |-> cells, row |-> row, col |-> col]
    /\ ticks = 0

\* tick(), counted.
PatTick ==
    /\ ticks < MaxTicks
    /\ TickUniverse
    /\ ticks' = ticks + 1
    /\ UNCHANGED <<start, locals>>

InitBlock ==
    \E w \in 4 .. PatMaxWidth, h \in 4 .. PatMaxHeight :
        \E row \in 0 .. h - 1, col \in 0 .. w - 1 :
            Seeded(w, h, BlockAt(w, h, row, col), row, col)

SpecBlock == InitBlock /\ [][PatTick]_vars

InitBlinker ==
    \E w \in 5 .. PatMaxWidth, h \in 5 .. PatMaxHeight :
        \E row \in 0 .. h - 1, col \in 0 .. w - 1 :
            Seeded(w, h, RowBlinkerAt(w, h, row, col), row, col)

SpecBlinker == InitBlinker /\ [][PatTick]_vars

(***************************************************************************)
(* The properties                                                          *)
(***************************************************************************)

\* 1 when the cell at ((row) mod h, (col) mod w) of cs is alive, else 0.
LiveMod(cs, w, h, row, col) == AsU8(Contains(cs, (row % h) * w + (col % w)))

\* The live cells among the 8 toroidal neighbours of (row, col), each
\* coordinate ((row + dr) mod h, (col + dc) mod w) counted once per (dr, dc).
ToroidalCount(cs, w, h, row, col) ==
    LiveMod(cs, w, h, row - 1, col - 1) + LiveMod(cs, w, h, row - 1, col)
    + LiveMod(cs, w, h, row - 1, col + 1) + LiveMod(cs, w, h, row, col - 1)
    + LiveMod(cs, w, h, row, col + 1) + LiveMod(cs, w, h, row + 1, col - 1)
    + LiveMod(cs, w, h, row + 1, col) + LiveMod(cs, w, h, row + 1, col + 1)

\* 1 when (row, col) is a cell of the grid and is alive, else 0.
LiveAt(row, col) ==
    AsU8(row < height /\ col < width /\ Contains(cells, row * width + col))

\* The live cells among the coordinates (H-1,W-1), (H-1,0), (H-1,1), (0,W-1),
\* (0,1), (1,W-1), (1,0), (1,1), taken as written.
CornerListCount ==
    LiveAt(height - 1, width - 1) + LiveAt(height - 1, 0) + LiveAt(height - 1, 1)
    + LiveAt(0, width - 1) + LiveAt(0, 1)
    + LiveAt(1, width - 1) + LiveAt(1, 0) + LiveAt(1, 1)

\* C1: on a grid with width >= 1 and height >= 1, a cell is alive after
\* tick() exactly when, before the tick, it was alive with 2 or 3 live
\* toroidal neighbours or dead with exactly 3; every other case gives a dead
\* cell.
C1_TickRule ==
    [][ (op' = "tick" /\ width >= 1 /\ height >= 1) =>
          /\ outcome' = "ok"
          /\ \A row \in 0 .. height - 1, col \in 0 .. width - 1 :
                LET alive == Contains(cells, row * width + col)
                    n == ToroidalCount(cells, width, height, row, col)
                IN  Contains(cells', row * width + col)
                        <=> ((alive /\ n \in {2, 3}) \/ (~alive /\ n = 3)) ]_vars

\* C1 witness: a tick on a 3x3 grid that left live and dead cells.
C1_Witness ==
    /\ op = "tick"
    /\ width = 3
    /\ height = 3
    /\ cells.data # {}
    /\ cells.data # 0 .. 8

\* C2, the general part: for every in-range (row, col) of a grid with
\* width >= 1 and height >= 1, live_neighbor_count is the number of live
\* cells among the 8 coordinates taken modulo the dimensions, with
\* multiplicity, and lies in 0..8.
C2_ModCount ==
    (width >= 1 /\ height >= 1) =>
        \A row \in 0 .. height - 1, col \in 0 .. width - 1 :
            /\ LiveNeighborCount(cells, width, height, row, col)
                  = ToroidalCount(cells, width, height, row, col)
            /\ LiveNeighborCount(cells, width, height, row, col) \in 0 .. 8

\* C2 as stated: the general part, and for cell (0,0) of every grid with
\* width >= 1 and height >= 1 the count is that of the coordinates (H-1,W-1),
\* (H-1,0), (H-1,1), (0,W-1), (0,1), (1,W-1), (1,0), (1,1).
C2_Original ==
    /\ C2_ModCount
    /\ (width >= 1 /\ height >= 1) =>
          LiveNeighborCount(cells, width, height, 0, 0) = CornerListCount

\* C2 as amended: the general part, and the listed coordinates are those of
\* cell (0,0) on every grid with width >= 2 and height >= 2 (on a grid 1 wide
\* or 1 high the column or row written 1 is column or row 0).
C2_NeighborCount ==
    /\ C2_ModCount
    /\ (width >= 2 /\ height >= 2) =>
          LiveNeighborCount(cells, width, height, 0, 0) = CornerListCount

\* C2 witness: after a tick on a 3x3 grid, cell (0,0) has the live cell
\* (2,2) among its neighbours, reached by wrapping north and west.
C2_Witness ==
    /\ op = "tick"
    /\ width = 3
    /\ height = 3
    /\ Contains(cells, GetIndex(3, 2, 2))
    /\ LiveNeighborCount(cells, 3, 3, 0, 0) >= 1

\* C3: in every reachable state the bit array holds width * height cells.
C3_LengthInvariant == cells.length = width * height

\* C3 witness: a resize to a non-square grid followed by writes.
C3_Witness ==
    /\ op = "set_cells"
    /\ outcome = "ok"
    /\ width = 2
    /\ height = 1
    /\ cells = [length |-> 2, data |-> {0, 1}]

\* C4: set_width(w) and set_height(h) store the new value of their dimension,
\* leave the other dimension as it was and leave a bit array of
\* new_width * new_height cells, all dead, whatever the cells were.
C4_ResizeResets ==
    [][ /\ \A w \in 0 .. MaxWidth :
              SetWidth(w) =>
                  /\ width' = w
                  /\ height' = height
                  /\ cells' = [length |-> w * height, data |-> {}]
        /\ \A h \in 0 .. MaxHeight :
              SetHeight(h) =>
                  /\ height' = h
                  /\ width' = width
                  /\ cells' = [length |-> width * h, data |-> {}]
        /\ op' \in {"set_width", "set_height"} =>
              /\ cells'.data = {}
              /\ cells'.length = width' * height'
              /\ outcome' = "ok" ]_vars

\* C4 witness: set_width has just made a 2x2 grid.
C4_Witness ==
    /\ op = "set_width"
    /\ width = 2
    /\ height = 2
    /\ cells = [length |-> 4, data |-> {}]

\* C5: render() writes `height` lines of `width` glyphs, each ended by a
\* newline, the glyph at line r, position c being that of the cell at index
\* r * width + c.
C5_RenderShape ==
    op = "render" =>
        /\ Len(ret) = height * (width + 1)
        /\ \A r \in 0 .. height - 1 :
              /\ ret[r * (width + 1) + width + 1] = "\n"
              /\ \A c \in 0 .. width - 1 :
                    ret[r * (width + 1) + c + 1]
                        = Symbol(Contains(cells, r * width + c))

\* C6: set_cell, toggle_cell and set_cells with row >= height or
\* col >= width panic and write no cell.
C6_OutOfRangePanics ==
    [][ \A row \in Rows, col \in Cols :
            (row >= height \/ col >= width) =>
                /\ \A state \in BOOLEAN :
                      SetCell(row, col, state) => (outcome' = "panic" /\ cells' = cells)
                /\ ToggleCell(row, col) => (outcome' = "panic" /\ cells' = cells)
                /\ \A state \in BOOLEAN :
                      SetCells(<<<<row, col>>>>, state)
                          => (outcome' = "panic" /\ cells' = cells) ]_vars

\* C7: whatever order the loop body runs for the cells in, the universe's
\* cells stay the pre-tick grid, every cell written so far holds the value
\* the row-major loops of the source give it, and when the loop body has run
\* for every cell `next` is the grid the row-major loops produce.
C7_OrderIndependent ==
    pc = "tick" =>
        LET r == TickLoop(cells, width, height)
        IN  /\ r.fault = "ok"
            /\ next.length = r.next.length
            /\ \A rc \in done :
                  Contains(next, GetIndex(width, rc[1], rc[2]))
                      = Contains(r.next, GetIndex(width, rc[1], rc[2]))
            /\ done = LoopCells(width, height) => next = r.next

\* C7 witness: on a 2x2 grid the loop body has run for the last cell (1,1)
\* only, which the row-major order reaches last, and has changed it.
C7_Witness ==
    /\ pc = "tick"
    /\ width = 2
    /\ height = 2
    /\ done = {<<1, 1>>}
    /\ next # cells

\* C8: a grid of width >= 4 and height >= 4 whose only live cells are a 2x2
\* block, wrapped or not, is the initial grid after every number of ticks.
C8_BlockStill ==
    /\ cells = start.cells
    /\ outcome = "ok"

\* C8 witness: two ticks on a 4x4 grid whose block wraps across both edges.
C8_Witness ==
    /\ op = "tick"
    /\ ticks = 2
    /\ width = 4
    /\ height = 4
    /\ start.row = 3
    /\ start.col = 3
    /\ cells.data = {0, 3, 12, 15}

\* C9: a grid of width >= 5 and height >= 5 whose only live cells are three
\* consecutive cells of one row holds, after one tick, exactly the three
\* consecutive cells of the column through the middle cell, and after two
\* ticks exactly the initial cells.
C9_BlinkerOscillates ==
    /\ ticks = 0 => cells.data = RowBlinkerAt(width, height, start.row, start.col)
    /\ ticks = 1 =>
          cells = [length |-> width * height,
                   data |-> ColBlinkerAt(width, height, start.row, start.col)]
    /\ ticks = 2 => cells = start.cells
    /\ outcome = "ok"

\* C9 witness: one tick on a 5x5 grid whose blinker wraps across the west
\* edge has left the column through (0, 0), wrapped across the north edge.
C9_Witness ==
    /\ op = "tick"
    /\ ticks = 1
    /\ width = 5
    /\ height = 5
    /\ start.cells.data = {4, 0, 1}
    /\ cells.data = {20, 0, 5}

\* C10: in every reachable state, whatever the dimensions (0 included),
\* tick() can be called and its loops complete without an out-of-bounds
\* write or an underflow; every tick() called has returned, and on an empty
\* grid it has left the grid empty.
C10_TickCallable ==
    /\ ENABLED Tick
    /\ TickLoop(cells, width, height).fault = "ok"
    /\ op = "tick" => outcome = "ok"
    /\ (op = "tick" /\ (width = 0 \/ height = 0)) => cells = WithCapacity(0)

\* C10 witness: tick() has returned on a grid of width 0 and height 2.
C10_Witness ==
    /\ op = "tick"
    /\ outcome = "ok"
    /\ width = 0
    /\ height = 2
    /\ cells = WithCapacity(0)

\* C11: on a 1x1 grid live_neighbor_count(0, 0) is 8 when the single cell is
\* alive and 0 when it is dead (all eight neighbour reads are the cell
\* itself), the loops of tick() complete without a fault, and the cell is
\* dead after every tick().
C11_OneByOne ==
    (width = 1 /\ height = 1) =>
        /\ LiveNeighborCount(cells, width, height, 0, 0) =
               (IF Contains(cells, GetIndex(width, 0, 0)) THEN 8 ELSE 0)
        /\ TickLoop(cells, width, height).fault = "ok"
        /\ TickLoop(cells, width, height).next = WithCapacity(1)
        /\ op = "tick" => (outcome = "ok" /\ ~Contains(cells, GetIndex(width, 0, 0)))

\* C11 witness: tick() has returned on a 1x1 grid and the cell is dead.
C11_Witness ==
    /\ op = "tick"
    /\ outcome = "ok"
    /\ width = 1
    /\ height = 1
    /\ cells = WithCapacity(1)

\* C12: a tick() called on a grid with every cell dead returns and leaves
\* every cell dead, so the grid stays dead over any number of further ticks,
\* and tick() can be called again in the state it leaves.
C12_DeadStaysDead ==
    [][(cells.data = {} /\ op' = "tick") =>
          /\ outcome' = "ok"
          /\ cells' = WithCapacity(Size(width, height))
          /\ ENABLED Tick]_vars

\* C12 witness: tick() has returned on a 3x3 grid and every cell is dead.
C12_Witness ==
    /\ op = "tick"
    /\ outcome = "ok"
    /\ width = 3
    /\ height = 3
    /\ cells = WithCapacity(9)

RECURSIVE SetCellInOrder(_, _, _, _, _)
\* The bit set after set_cell(row, col, state) is called for the entries of
\* the list from entry i on, in list order, each index inside the bit set.
SetCellInOrder(bs, w, list, state, i) ==
    IF i > Len(list) THEN bs
    ELSE SetCellInOrder(Put(bs, GetIndex(w, list[i][1], list[i][2]), state),
                        w, list, state, i + 1)

\* Every coordinate of the list is inside the w x h grid.
InRangeList(list, w, h) ==
    \A i \in 1 .. Len(list) : list[i][1] < h /\ list[i][2] < w

\* The indices of the coordinates of the list.
ListedIndices(list, w) ==
    {GetIndex(w, list[i][1], list[i][2]) : i \in 1 .. Len(list)}

\* C13: set_cells(list, state) with every coordinate in range returns and
\* leaves the grid that calling set_cell(row, col, state) for each entry in
\* list order leaves: every listed cell, listed once or several times, holds
\* `state`, and every cell not listed keeps the value it had.
C13_SetCellsInOrder ==
    (op = "set_cells" /\ InRangeList(start.list, width, height)) =>
        /\ outcome = "ok"
        /\ cells = SetCellInOrder(start.cells, width, start.list, start.state, 1)
        /\ cells.length = start.cells.length
        /\ \A bit \in ListedIndices(start.list, width) :
               Contains(cells, bit) = start.state
        /\ \A bit \in (0 .. cells.length - 1) \ ListedIndices(start.list, width) :
               Contains(cells, bit) = Contains(start.cells, bit)

\* C13 witness: set_cells([(1, 1), (1, 1)], false) has returned on the
\* all-alive 2x2 grid: the coordinate listed twice is dead, the rest alive.
C13_Witness ==
    /\ op = "set_cells"
    /\ outcome = "ok"
    /\ width = 2
    /\ height = 2
    /\ start.cells.data = {0, 1, 2, 3}
    /\ start.list = <<<<1, 1>>, <<1, 1>>>>
    /\ start.state = FALSE
    /\ cells.data = {0, 1, 2}

\* C14: new(width, height) returns for every pair of u32 dimensions, and the
\* universe it builds has these dimensions and exactly width * height cells,
\* the product taken in full (four halves), not modulo 2^32.
C14_NewExact ==
    op = "new" =>
        /\ outcome = "ok"
        /\ width = start.width
        /\ height = start.height
        /\ <<cells.length % Half, cells.length \div Half, 0, 0>> =
               WideMul(start.width, start.height)

\* C15: while a tick() is running, self.cells does not change: the clone and
\* every run of the loop body leave it equal to the pre-tick grid (the writes
\* go to `next`), and the one step that changes it, the final assignment,
\* replaces it by the complete next generation.  No step leaves self.cells
\* holding new values for some cells and old values for others.
C15_CellsWholeUntilEnd ==
    [][/\ pc' = "tick" => cells' = cells
       /\ (pc = "tick" /\ pc' = "idle" /\ outcome' = "ok") =>
              /\ done = LoopCells(width, height)
              /\ cells' = next
              /\ cells' = TickLoop(cells, width, height).next]_vars

\* C15 witness: a tick() of a 3x2 grid is between two runs of its loop body,
\* the first row and (1, 0) done in the order of the source, and `next`
\* already differs from self.cells.
C15_Witness ==
    /\ pc = "tick"
    /\ width = 3
    /\ height = 2
    /\ done = {<<0, 0>>, <<0, 1>>, <<0, 2>>, <<1, 0>>}
    /\ next # cells
    /\ next.data \cap {4, 5} = cells.data \cap {4, 5}

\* C16: a step that returns from set_cells_all is checked against each call
\* it can be.  set_cells_all(state) leaves width and height unchanged and leaves a
\* bit set of width * height cells, every one equal to `state`, whatever the
\* bit set held before; set_cells_alive_all() leaves every cell alive and
\* set_cells_dead_all() every cell dead.
C16_SetCellsAllFills ==
    [][op' = "set_cells_all" =>
          /\ \A state \in BOOLEAN :
                 SetCellsAll(state) =>
                     /\ width' = width
                     /\ height' = height
                     /\ cells'.length = width * height
                     /\ cells'.data \subseteq 0 .. width * height - 1
                     /\ \A row \in 0 .. height - 1, col \in 0 .. width - 1 :
                            Contains(cells', GetIndex(width, row, col)) = state
          /\ SetCellsAliveAll => cells'.data = 0 .. width * height - 1
          /\ SetCellsDeadAll => cells'.data = {}]_vars

\* C16 witness: set_cells_all(true) has returned on a 2x2 grid.
C16_Witness ==
    /\ op = "set_cells_all"
    /\ outcome = "ok"
    /\ width = 2
    /\ height = 2
    /\ cells = [length |-> 4, data |-> {0, 1, 2, 3}]

\* This step changes no dimension and no cell but the one at index idx.
OnlyCellChanges(idx) ==
    /\ width' = width
    /\ height' = height
    /\ cells'.length = cells.length
    /\ \A bit \in (0 .. cells.length - 1) \ {idx} :
           Contains(cells', bit) = Contains(cells, bit)
    /\ cells'.data \subseteq 0 .. cells.length - 1

\* C17: a step that returns from set_cell or toggle_cell is checked against
\* each in-range call it can be.  For row < height and col < width, set_cell(row, col, state) returns
\* with the cell at (row, col) equal to `state`, toggle_cell(row, col)
\* returns with it negated, and both leave every other cell and both
\* dimensions unchanged; toggle_cell(row, col) called again on the grid a
\* toggle left gives back the grid before the first toggle.
C17_SingleCellFrame ==
    [][op' \in {"set_cell", "toggle_cell"} =>
          \A row \in 0 .. height - 1, col \in 0 .. width - 1 :
             /\ \A state \in BOOLEAN :
                    SetCell(row, col, state) =>
                        /\ outcome' = "ok"
                        /\ Contains(cells', GetIndex(width, row, col)) = state
                        /\ OnlyCellChanges(GetIndex(width, row, col))
             /\ ToggleCell(row, col) =>
                    /\ outcome' = "ok"
                    /\ Contains(cells', GetIndex(width, row, col)) =
                           ~Contains(cells, GetIndex(width, row, col))
                    /\ OnlyCellChanges(GetIndex(width, row, col))
                    /\ ~SetPanics(cells', GetIndex(width, row, col))
                    /\ Toggled(cells', width, row, col) = cells]_vars

\* C17 witness: toggle_cell(1, 1) has returned on a 2x2 grid and left the
\* cell at (1, 1) the only live one.
C17_Witness ==
    /\ op = "toggle_cell"
    /\ outcome = "ok"
    /\ width = 2
    /\ height = 2
    /\ cells = [length |-> 4, data |-> {GetIndex(2, 1, 1)}]

\* C18: a step that returns from tick() leaves width, height and the number
\* of cells of the bit set unchanged, from every reachable state; only the
\* values of the cells change.
C18_TickFrame ==
    [][op' = "tick" =>
          /\ width' = width
          /\ height' = height
          /\ cells'.length = cells.length
          /\ cells'.data \subseteq 0 .. cells.length - 1]_vars

\* C18 witness: tick() has returned on a 2x1 grid, which still has 2 cells.
C18_Witness ==
    /\ op = "tick"
    /\ outcome = "ok"
    /\ width = 2
    /\ height = 1
    /\ cells.length = 2

====
